---- MODULE Spec2Model ----
(***************************************************************************)
(* A model of target_bigquery/schema.py: the conversion of a JSON schema   *)
(* to a BigQuery schema (create_valid_bigquery_field_name,                 *)
(* convert_field_type, build_field, build_schema) and the conformance of   *)
(* records to that schema (format_record_to_schema).                       *)
(*                                                                         *)
(* Python values are modelled as follows.                                  *)
(*   str used as a field name or as the text of a number: a sequence of    *)
(*       one-character strings, so that it can be scanned and cut;         *)
(*   dict with arbitrary keys (properties, force_fields, a record, the     *)
(*       field mapping): a sequence of <<key, value>> pairs in insertion   *)
(*       order, keys distinct;                                             *)
(*   dict with a fixed vocabulary of optional keys (a schema node, a       *)
(*       force_fields entry): a record, "k in d" being k \in DOMAIN d;     *)
(*   an optional integer: <<>> for None, <<n>> for n;                      *)
(*   the outcome of a function that can raise and does not return a        *)
(*       record: [ret |-> value] when it returns, [exc |-> kind] when it   *)
(*       raises; a function that returns a record returns it bare.         *)
(***************************************************************************)
EXTENDS Integers, Sequences, FiniteSets, TLC

VARIABLES
    required_fields, \* the module global set by build_schema
    frames,          \* build_schema: one activation record per caller
    nm,              \* create_valid_bigquery_field_name: input and outcome
    ty,              \* convert_field_type: input and outcome
    fm               \* format_record_to_schema: input and outcome

vars == <<required_fields, frames, nm, ty, fm>>

\* ---------------------------------------------------------------- helpers

None == <<>>
Some(n) == <<n>>

Min(a, b) == IF a <= b THEN a ELSE b

Ret(v) == [ret |-> v]
Raise(kind) == [exc |-> kind]
IsExc(r) == "exc" \in DOMAIN r

\* a value that marks a part of the state that a specification does not use
Idle == [pc |-> "idle"]

\* dict helpers over sequences of <<key, value>> pairs
Keys(d) == [i \in 1..Len(d) |-> d[i][1]]
HasKey(d, k) == \E i \in 1..Len(d) : d[i][1] = k
Get(d, k) == d[CHOOSE i \in 1..Len(d) : d[i][1] = k][2]

\* n copies of c
Rep(c, n) == [i \in 1..n |-> c]

\* ------------------------------------------------------------- characters

Letters == {"a", "b", "e", "E", "x"}
Digits == {"0", "1", "2", "3", "4", "5", "6", "7", "8", "9"}

\* str.isalnum and str.isdigit on one character
isalnum(c) == c \in Letters \cup Digits
isdigit(c) == c \in Digits

\* ------------------------------------------- create_valid_bigquery_field_name

MaxFieldNameLen == 300

\* force_fields[field_name].get(key), truthy
ForceHas(force_fields, field_name, key) ==
    /\ HasKey(force_fields, field_name)
    /\ key \in DOMAIN Get(force_fields, field_name)
    /\ IF key = "bq_field_name"
       THEN Get(force_fields, field_name)[key] # <<>>
       ELSE Get(force_fields, field_name)[key] # ""

\* the loop of lines 80-85
CleanChars(field_name) ==
    [i \in 1..Len(field_name) |->
        IF isalnum(field_name[i]) THEN field_name[i] ELSE "_"]

create_valid_bigquery_field_name(field_name, force_fields) ==
    IF ForceHas(force_fields, field_name, "bq_field_name")
    THEN Ret(Get(force_fields, field_name)["bq_field_name"])
    ELSE LET cleaned == CleanChars(field_name)
         IN  IF Len(cleaned) = 0
             THEN Raise("IndexError")   \* cleaned_up_field_name[0] of ""
             ELSE LET pre == IF isdigit(cleaned[1]) THEN <<"_">> \o cleaned
                                                    ELSE cleaned
                  IN  Ret(SubSeq(pre, 1, Min(Len(pre), MaxFieldNameLen)))

\* ------------------------------------------------ the text of a multipleOf

\* A multipleOf is [kind |-> "int", n |-> n] for a Python int n >= 0, or
\* [kind |-> "float", digits |-> d, decpt |-> p] for the float whose shortest
\* decimal digits are d (first and last digit nonzero) and whose value is
\* 0.d1 d2 ... dn * 10^p.

DigitChars == <<"0", "1", "2", "3", "4", "5", "6", "7", "8", "9">>
DigitChar(d) == DigitChars[d + 1]
DigitVal(c) == CHOOSE d \in 0..9 : DigitChars[d + 1] = c

RECURSIVE IntStr(_)
IntStr(n) == IF n < 10 THEN <<DigitChar(n)>>
             ELSE IntStr(n \div 10) \o <<DigitChar(n % 10)>>

DigitsStr(ds) == [i \in 1..Len(ds) |-> DigitChar(ds[i])]

\* repr of a float switches to exponent notation outside these positions
ReprExpLow == -4
ReprExpHigh == 16

\* str(x) of a float: float_repr_style "short", format code 'r'
FloatStr(digits, decpt) ==
    LET n == Len(digits)
        ds == DigitsStr(digits)
    IN  IF decpt <= ReprExpLow \/ decpt > ReprExpHigh
        THEN LET e == decpt - 1
                 mag == IF e < 0 THEN -e ELSE e
                 es == IF mag < 10 THEN <<"0">> \o IntStr(mag) ELSE IntStr(mag)
                 mant == IF n = 1 THEN ds
                         ELSE <<ds[1], ".">> \o SubSeq(ds, 2, n)
             IN  mant \o <<"e", IF e < 0 THEN "-" ELSE "+">> \o es
        ELSE IF decpt <= 0
             THEN <<"0", ".">> \o Rep("0", -decpt) \o ds
             ELSE IF decpt < n
                  THEN SubSeq(ds, 1, decpt) \o <<".">> \o SubSeq(ds, decpt + 1, n)
                  ELSE ds \o Rep("0", decpt - n) \o <<".", "0">>

\* str(field_property.get('multipleOf'))
StepStr(m) == IF m.kind = "int" THEN IntStr(m.n) ELSE FloatStr(m.digits, m.decpt)

\* bool(multipleOf)
StepTruthy(m) == IF m.kind = "int" THEN m.n # 0 ELSE TRUE

\* re.search(r'\.(.*?)$', s): group(1) is what follows the first "."; <<>>
\* wrapped as None when there is no "."
Match1(s) ==
    IF \E i \in 1..Len(s) : s[i] = "."
    THEN LET i == CHOOSE i \in 1..Len(s) :
                      s[i] = "." /\ \A j \in 1..(i - 1) : s[j] # "."
         IN  Some(SubSeq(s, i + 1, Len(s)))
    ELSE None

\* re.search(r'(?i)1e\-(.*?)$', s): group(1) is what follows the first "1e-"
At1e(s, i) == i + 2 <= Len(s) /\ s[i] = "1" /\ s[i + 1] \in {"e", "E"} /\ s[i + 2] = "-"

Match2(s) ==
    IF \E i \in 1..Len(s) : At1e(s, i)
    THEN LET i == CHOOSE i \in 1..Len(s) :
                      At1e(s, i) /\ \A j \in 1..(i - 1) : ~At1e(s, j)
         IN  Some(SubSeq(s, i + 3, Len(s)))
    ELSE None

\* int(s) of a text of digits
RECURSIVE ParseNat(_)
ParseNat(s) == IF Len(s) = 0 THEN 0
               ELSE 10 * ParseNat(SubSeq(s, 1, Len(s) - 1)) + DigitVal(s[Len(s)])

IntOfText(s) == IF Len(s) > 0 /\ \A i \in 1..Len(s) : isdigit(s[i])
                THEN Ret(ParseNat(s))
                ELSE Raise("ValueError")

\* ------------------- determine_precision_and_scale_for_decimal_or_bigdecimal

BQ_DECIMAL_SCALE_MAX == 9
BQ_BIGDECIMAL_SCALE_MAX == 38
BQ_DECIMAL_MAX_PRECISION_INCREMENT == 29
BQ_BIGDECIMAL_MAX_PRECISION_INCREMENT == 38

PrecisionFor(scale) ==
    IF scale <= BQ_DECIMAL_SCALE_MAX
    THEN scale + BQ_DECIMAL_MAX_PRECISION_INCREMENT
    ELSE scale + BQ_BIGDECIMAL_MAX_PRECISION_INCREMENT

PrecScale(scale) == [precision |-> Some(PrecisionFor(scale)), scale |-> Some(scale)]

NoPrecScale == [precision |-> None, scale |-> None]

determine_precision_and_scale_for_decimal_or_bigdecimal(field_property) ==
    IF "multipleOf" \in DOMAIN field_property
    THEN LET s == StepStr(field_property.multipleOf)
             match_1 == Match1(s)
             match_2 == Match2(s)
         IN  IF match_1 # None
             THEN PrecScale(Min(Len(match_1[1]), BQ_BIGDECIMAL_SCALE_MAX))
             ELSE IF match_2 # None
                  THEN LET v == IntOfText(match_2[1])
                       IN  IF IsExc(v) THEN v
                           ELSE PrecScale(Min(v.ret, BQ_BIGDECIMAL_SCALE_MAX))
                  ELSE NoPrecScale
    ELSE NoPrecScale

\* -------------------------- prioritize_one_data_type_from_multiple_ones_in_any_of

prioritization_dict ==
    ("string" :> 1) @@ ("number" :> 2) @@ ("integer" :> 3) @@
    ("boolean" :> 4) @@ ("object" :> 5) @@ ("array" :> 6)

\* the keys of any_of_data_types, in insertion order, after the first n
\* alternatives: dict.update keeps the place of a key that is already there
RECURSIVE AnyOfKeys(_, _)
AnyOfKeys(any_of, n) ==
    IF n = 0 THEN <<>>
    ELSE LET before == AnyOfKeys(any_of, n - 1)
             data_type == any_of[n].type[1]
         IN  IF \E i \in 1..Len(before) : before[i] = data_type
             THEN before
             ELSE Append(before, data_type)

\* the first key, whatever its value
FirstKey(keys) == keys[1]

\* min(d, key=d.get): the first key, in iteration order, of minimal value
MinKey(keys) ==
    keys[CHOOSE i \in 1..Len(keys) :
            /\ \A j \in 1..Len(keys) :
                  prioritization_dict[keys[i]] <= prioritization_dict[keys[j]]
            /\ \A j \in 1..(i - 1) :
                  prioritization_dict[keys[j]] > prioritization_dict[keys[i]]]

prioritize_one_data_type_from_multiple_ones_in_any_of(field_property) ==
    LET any_of == field_property.anyOf
    IN  IF \E i \in 1..Len(any_of) :
              \/ "type" \notin DOMAIN any_of[i]
              \/ any_of[i].type[1] \notin DOMAIN prioritization_dict
        THEN Raise("KeyError")
        ELSE IF Len(any_of) = 0
             THEN Raise("ValueError")     \* min() of an empty dict
             ELSE Ret(MinKey(AnyOfKeys(any_of, Len(any_of))))

\* ------------------------------------------------------- convert_field_type

conversion_dict ==
    ("string" :> "STRING") @@ ("number" :> "FLOAT") @@ ("integer" :> "INTEGER") @@
    ("boolean" :> "BOOLEAN") @@ ("date-time" :> "TIMESTAMP") @@ ("date" :> "DATE") @@
    ("time" :> "TIME") @@ ("object" :> "JSON") @@ ("array" :> "JSON") @@
    ("bq-geography" :> "GEOGRAPHY") @@ ("bq-decimal" :> "DECIMAL") @@
    ("bq-bigdecimal" :> "BIGDECIMAL")

\* conversion_dict[key]
Convert(key) == IF key \in DOMAIN conversion_dict THEN Ret(conversion_dict[key])
                ELSE Raise("KeyError")

\* field_property["type"][0]
FirstType(field_property) ==
    IF "type" \notin DOMAIN field_property THEN Raise("KeyError")
    ELSE IF Len(field_property.type) = 0 THEN Raise("IndexError")
    ELSE Ret(field_property.type[1])

\* the branch of lines 202-217, entered once its condition held
StepBranch(field_property) ==
    LET ps == determine_precision_and_scale_for_decimal_or_bigdecimal(field_property)
    IN  IF IsExc(ps) THEN ps
        ELSE IF field_property.multipleOf.kind = "int" THEN Ret("INTEGER")
        ELSE IF ps.scale # None /\ ps.scale # Some(0)
             THEN IF ps.scale[1] <= BQ_DECIMAL_SCALE_MAX THEN Ret("DECIMAL")
                                                         ELSE Ret("BIGDECIMAL")
             ELSE Raise("UnboundLocalError")  \* field_type_bigquery never bound

\* the branches of lines 219-229
LaterBranches(field_property) ==
    LET t == FirstType(field_property)
    IN  IF IsExc(t) THEN t
        ELSE IF t.ret = "string" /\ "format" \in DOMAIN field_property
             THEN Convert(field_property.format)
        ELSE IF "items" \in DOMAIN field_property
                /\ "properties" \notin DOMAIN field_property.items
             THEN LET it == FirstType(field_property.items)
                  IN  IF IsExc(it) THEN it ELSE Convert(it.ret)
        ELSE Convert(t.ret)

convert_field_type(field_name, field_property, force_fields) ==
    IF ForceHas(force_fields, field_name, "type")
    THEN Ret(Get(force_fields, field_name)["type"])
    ELSE IF "anyOf" \in DOMAIN field_property
    THEN LET p == prioritize_one_data_type_from_multiple_ones_in_any_of(field_property)
         IN  IF IsExc(p) THEN p ELSE Convert(p.ret)
    ELSE IF "multipleOf" \in DOMAIN field_property
            /\ StepTruthy(field_property.multipleOf)
    THEN IF "format" \notin DOMAIN field_property THEN Raise("KeyError")
         ELSE LET f == Convert(field_property.format)
              IN  IF IsExc(f) THEN f
                  ELSE IF f.ret = "FLOAT" THEN StepBranch(field_property)
                  ELSE LaterBranches(field_property)
    ELSE LaterBranches(field_property)

\* ----------------------------------------------------- determine_field_mode

determine_field_mode(field_name, field_property, force_fields) ==
    IF ForceHas(force_fields, field_name, "mode")
    THEN Get(force_fields, field_name)["mode"]
    ELSE IF "items" \in DOMAIN field_property THEN "REPEATED"
    ELSE "NULLABLE"

\* -------------------------------------------------------------- SchemaField

SchemaField(name, field_type, mode, fields, precision, scale) ==
    [name |-> name, field_type |-> field_type, mode |-> mode,
     fields |-> fields, precision |-> precision, scale |-> scale]

\* a promotion that copies the field and forgets to set the mode
replace_mode_kept(schema_field_input) ==
    SchemaField(schema_field_input.name, schema_field_input.field_type,
                schema_field_input.mode, schema_field_input.fields, None, None)

\* the constructor leaves precision and scale unset: they are not passed
replace_nullable_mode_with_required(schema_field_input) ==
    SchemaField(schema_field_input.name, schema_field_input.field_type,
                "REQUIRED", schema_field_input.fields, None, None)

\* -------------------------------------------------------------- build_field

HasNested(field_property) ==
    \/ "items" \in DOMAIN field_property
       /\ "properties" \in DOMAIN field_property.items
    \/ "properties" \in DOMAIN field_property

\* field_property.get("properties", field_property.get("items", {}).get("properties"))
NestedProperties(field_property) ==
    IF "properties" \in DOMAIN field_property THEN field_property.properties
    ELSE field_property.items.properties

\* the first raised exception of a sequence of outcomes, or the sequence
FirstExc(rs) ==
    IF \E i \in 1..Len(rs) : IsExc(rs[i])
    THEN rs[CHOOSE i \in 1..Len(rs) :
                IsExc(rs[i]) /\ \A j \in 1..(i - 1) : ~IsExc(rs[j])]
    ELSE [ret |-> rs]

RECURSIVE build_field(_, _, _)
build_field(field_name, field_property, force_fields) ==
    LET field_type == convert_field_type(field_name, field_property, force_fields)
    IN  IF IsExc(field_type) THEN field_type
        ELSE
        LET ps == IF field_type.ret \in {"DECIMAL", "BIGDECIMAL"}
                  THEN determine_precision_and_scale_for_decimal_or_bigdecimal(field_property)
                  ELSE NoPrecScale
        IN  IF IsExc(ps) THEN ps
            ELSE
            LET props == IF HasNested(field_property)
                         THEN NestedProperties(field_property) ELSE <<>>
                subs == FirstExc([i \in 1..Len(props) |->
                                    build_field(props[i][1], props[i][2], force_fields)])
            IN  IF IsExc(subs) THEN subs
                ELSE
                LET name == create_valid_bigquery_field_name(field_name, force_fields)
                IN  IF IsExc(name) THEN name
                    ELSE SchemaField(name.ret, field_type.ret,
                                     determine_field_mode(field_name, field_property,
                                                          force_fields),
                                     subs.ret, ps.precision, ps.scale)

\* ------------------------------------------------------------- build_schema

METADATA_FIELDS ==
    << <<"_", "t", "i", "m", "e", "_", "e", "x", "t", "r", "a", "c", "t", "e", "d">>,
       <<"_", "t", "i", "m", "e", "_", "l", "o", "a", "d", "e", "d">> >>

MetadataField(field_name) ==
    SchemaField(field_name, "timestamp", "NULLABLE", <<>>, None, None)

\* schema.get("properties", schema.get("items", {}).get("properties", {}))
TopProperties(schema) ==
    IF "properties" \in DOMAIN schema THEN schema.properties
    ELSE IF "items" \in DOMAIN schema /\ "properties" \in DOMAIN schema.items
         THEN schema.items.properties
         ELSE <<>>

\* the activation record of a call that has not started yet
NewFrame(schema, key_properties, add_metadata, force_fields) ==
    [pc |-> "call", schema |-> schema, key_properties |-> key_properties,
     add_metadata |-> add_metadata, force_fields |-> force_fields,
     i |-> 1, schema_bigquery |-> <<>>]

\* lines 392-396: the global is bound to this call's key properties
Call(c) ==
    /\ frames[c].pc = "call"
    /\ required_fields' = frames[c].key_properties
    /\ frames' = [frames EXCEPT ![c].pc = "loop", ![c].i = 1,
                                ![c].schema_bigquery = <<>>]
    /\ UNCHANGED <<nm, ty, fm>>

\* lines 398-405: one iteration of the loop; the global is read here
LoopStep(c) ==
    LET f == frames[c]
        props == TopProperties(f.schema)
    IN  /\ f.pc = "loop"
        /\ f.i <= Len(props)
        /\ LET field_name == props[f.i][1]
               built == build_field(field_name, props[f.i][2], f.force_fields)
               next_field ==
                   IF field_name \in required_fields
                      /\ ~HasKey(f.force_fields, field_name)
                   THEN replace_nullable_mode_with_required(built)
                   ELSE built
           IN  frames' = IF IsExc(built)
                         THEN [frames EXCEPT ![c].pc = "raised"]
                         ELSE [frames EXCEPT ![c].i = f.i + 1,
                                  ![c].schema_bigquery = Append(@, next_field)]
        /\ UNCHANGED <<required_fields, nm, ty, fm>>

\* lines 407-418: the metadata columns and the return
Return(c) ==
    LET f == frames[c]
    IN  /\ f.pc = "loop"
        /\ f.i > Len(TopProperties(f.schema))
        /\ frames' = [frames EXCEPT ![c].pc = "returned",
                         ![c].schema_bigquery =
                             IF f.add_metadata
                             THEN @ \o [k \in 1..Len(METADATA_FIELDS) |->
                                           MetadataField(METADATA_FIELDS[k])]
                             ELSE @]
        /\ UNCHANGED <<required_fields, nm, ty, fm>>

\* ------------------------------------------------- inputs of build_schema

A == <<"a">>
B == <<"b">>
FieldNames == {A, B}

\* multipleOf values: 0.01, 1e-12 and 5
Step_0_01 == [kind |-> "float", digits |-> <<1>>, decpt |-> -1]
Step_1e_12 == [kind |-> "float", digits |-> <<1>>, decpt |-> -11]
Step_5 == [kind |-> "int", n |-> 5]

IntegerNode == [type |-> <<"integer", "null">>]
DecimalNode == [type |-> <<"number", "null">>, format |-> "number",
                multipleOf |-> Step_0_01]
BigDecimalNode == [type |-> <<"number", "null">>, format |-> "number",
                   multipleOf |-> Step_1e_12]
BqDecimalNode == [type |-> <<"string", "null">>, format |-> "bq-decimal"]
ScalarArrayNode == [type |-> <<"array", "null">>, items |-> [type |-> <<"string">>]]
AnyOfNode == [anyOf |-> << [type |-> <<"integer", "null">>],
                           [type |-> <<"string", "null">>] >>]
\* a node that was not simplified: "null" is no key of conversion_dict
NullFirstNode == [type |-> <<"null", "string">>]

ChildLeaves == {IntegerNode, DecimalNode}
LeafNodes == {IntegerNode, DecimalNode, BigDecimalNode, BqDecimalNode,
              ScalarArrayNode, AnyOfNode, NullFirstNode}

\* the property mappings of at most n fields over the given names and nodes
RECURSIVE PropLists(_, _, _)
PropLists(names, nodes, n) ==
    IF n = 0 THEN {<<>>}
    ELSE LET prev == PropLists(names, nodes, n - 1)
         IN  prev \cup
             {Append(x[1], <<x[2], x[3]>>) :
                 x \in {y \in prev \X names \X nodes :
                           Len(y[1]) = n - 1 /\ ~HasKey(y[1], y[2])}}

ObjectNode(props) == [type |-> <<"object", "null">>, properties |-> props]
ObjectArrayNode(props) ==
    [type |-> <<"array", "null">>,
     items |-> [type |-> <<"object", "null">>, properties |-> props]]

ChildLists == PropLists(FieldNames, ChildLeaves, Cardinality(FieldNames)) \ {<<>>}

\* an object inside a repeated object
DeepNode == ObjectArrayNode(<< <<A, ObjectNode(<< <<A, IntegerNode>> >>)>>,
                               <<B, DecimalNode>> >>)

Nodes == LeafNodes
         \cup {ObjectNode(p) : p \in ChildLists}
         \cup {ObjectArrayNode(p) : p \in ChildLists}
         \cup {DeepNode}

MaxProps == 2

Schemas == {[type |-> <<"object">>, properties |-> p] :
               p \in PropLists(FieldNames, Nodes, MaxProps)}

KeyProperties == SUBSET FieldNames

ForceFields ==
    { <<>>,
      << <<A, [mode |-> "REQUIRED"]>> >>,
      << <<A, [type |-> "DECIMAL"]>>, <<B, [bq_field_name |-> <<"x">>]>> >> }

\* -------------------------------------------- one build_schema call at a time

Callers == {1, 2, 3}

IdleFrames == [c \in Callers |-> Idle]

Init ==
    /\ required_fields = {}
    /\ \E s \in Schemas, k \in KeyProperties, m \in BOOLEAN, f \in ForceFields :
          frames = [IdleFrames EXCEPT ![1] = NewFrame(s, k, m, f)]
    /\ nm = Idle
    /\ ty = Idle
    /\ fm = Idle

Next == Call(1) \/ LoopStep(1) \/ Return(1)

Spec == Init /\ [][Next]_vars

\* ------------------------------------------------------- claims: build_schema

Returned(c) == frames[c].pc = "returned"

\* force_fields gives the name this mode
ForcedMode(force_fields, field_name, mode) ==
    /\ ForceHas(force_fields, field_name, "mode")
    /\ Get(force_fields, field_name)["mode"] = mode

KeyWithoutForce(f, field_name) ==
    field_name \in f.key_properties /\ ~HasKey(f.force_fields, field_name)

\* fields[i] is the field compiled from props[i]; at every depth the mode is
\* REQUIRED exactly for the key properties that force_fields does not name
RECURSIVE RequiredIffKey(_, _, _)
RequiredIffKey(f, props, fields) ==
    \A i \in 1..Len(props) :
        /\ fields[i].mode = "REQUIRED" <=> KeyWithoutForce(f, props[i][1])
        /\ HasNested(props[i][2]) =>
              RequiredIffKey(f, NestedProperties(props[i][2]), fields[i].fields)

\* C1 as stated: in every returned tree, for every field at every nesting
\* depth (the metadata fields excepted), the mode is REQUIRED if and only if
\* the field's original name is in key_properties and has no entry in
\* force_fields.
C1_RequiredIffKeyAtEveryDepth ==
    \A c \in Callers :
        Returned(c) =>
            RequiredIffKey(frames[c], TopProperties(frames[c].schema),
                           frames[c].schema_bigquery)

\* below the top level only a forced mode makes a field REQUIRED
RECURSIVE NestedRequiredIffForced(_, _, _)
NestedRequiredIffForced(f, props, fields) ==
    \A i \in 1..Len(props) :
        /\ fields[i].mode = "REQUIRED"
              <=> ForcedMode(f.force_fields, props[i][1], "REQUIRED")
        /\ HasNested(props[i][2]) =>
              NestedRequiredIffForced(f, NestedProperties(props[i][2]),
                                      fields[i].fields)

\* C1 as amended: in every returned tree, a top-level field (the metadata
\* fields excepted) is REQUIRED if and only if its original name is in
\* key_properties and has no entry in force_fields, or force_fields gives the
\* name the mode REQUIRED; a nested field is REQUIRED if and only if
\* force_fields gives its name the mode REQUIRED.
C1_RequiredIffKeyAtTopLevel ==
    \A c \in Callers :
        Returned(c) =>
            LET f == frames[c]
                props == TopProperties(f.schema)
            IN  \A i \in 1..Len(props) :
                    /\ f.schema_bigquery[i].mode = "REQUIRED"
                          <=> \/ KeyWithoutForce(f, props[i][1])
                              \/ ForcedMode(f.force_fields, props[i][1], "REQUIRED")
                    /\ HasNested(props[i][2]) =>
                          NestedRequiredIffForced(f, NestedProperties(props[i][2]),
                                                  f.schema_bigquery[i].fields)

\* a returned tree with a promoted key property whose nested field of a key
\* property's name stayed NULLABLE
C1_Witness ==
    \E c \in Callers :
        /\ Returned(c)
        /\ LET f == frames[c]
               props == TopProperties(f.schema)
           IN  \E i \in 1..Len(props) :
                   /\ KeyWithoutForce(f, props[i][1])
                   /\ f.schema_bigquery[i].mode = "REQUIRED"
                   /\ HasNested(props[i][2])
                   /\ \E j \in 1..Len(NestedProperties(props[i][2])) :
                         /\ KeyWithoutForce(f, NestedProperties(props[i][2])[j][1])
                         /\ f.schema_bigquery[i].fields[j].mode = "NULLABLE"

\* the fields compiled from props, without the promotion of build_schema
CompiledFields(props, force_fields) ==
    [i \in 1..Len(props) |-> build_field(props[i][1], props[i][2], force_fields)]

\* C2 as stated: for every schema node that carries nested properties,
\* directly or inside its items wrapper, build_field returns a field of type
\* RECORD whose children are the compiled fields of those properties in the
\* same order, with mode REPEATED when wrapped in items, and with precision
\* and scale unset.
C2_NestedIsRecord ==
    \A c \in Callers :
        Returned(c) =>
            LET f == frames[c]
                props == TopProperties(f.schema)
            IN  \A i \in 1..Len(props) :
                    HasNested(props[i][2]) =>
                        LET built == build_field(props[i][1], props[i][2],
                                                 f.force_fields)
                        IN  /\ built.field_type = "RECORD"
                            /\ built.fields =
                                  CompiledFields(NestedProperties(props[i][2]),
                                                 f.force_fields)
                            /\ "items" \in DOMAIN props[i][2]
                                  => built.mode = "REPEATED"
                            /\ built.precision = None
                            /\ built.scale = None

DecimalTypes == {"DECIMAL", "BIGDECIMAL"}

\* precision and scale are set exactly on the exact-decimal types, and then
\* precision >= scale >= 0
RECURSIVE PrecisionIffDecimal(_)
PrecisionIffDecimal(fields) ==
    \A i \in 1..Len(fields) :
        /\ (fields[i].precision # None /\ fields[i].scale # None)
              <=> fields[i].field_type \in DecimalTypes
        /\ (fields[i].precision # None) <=> (fields[i].scale # None)
        /\ fields[i].precision # None =>
              /\ fields[i].precision[1] >= fields[i].scale[1]
              /\ fields[i].scale[1] >= 0
        /\ PrecisionIffDecimal(fields[i].fields)

\* C3 as stated: in every returned tree each field has precision and scale
\* set if and only if its type is DECIMAL or BIGDECIMAL, and whenever they are
\* set precision >= scale >= 0.
C3_PrecisionIffDecimal ==
    \A c \in Callers :
        Returned(c) => PrecisionIffDecimal(frames[c].schema_bigquery)

\* ------------------------------------------ build_schema calls in parallel

\* Several threads call build_schema with the same schema, metadata flag and
\* force_fields, each with its own key_properties; a thread switch may fall
\* between any two steps of a call.
ConcSchemas ==
    {[type |-> <<"object">>, properties |-> p] :
        p \in { << <<A, IntegerNode>> >>,
                << <<A, IntegerNode>>, <<B, DecimalNode>> >> }}

InitConc ==
    /\ required_fields = {}
    /\ \E s \in ConcSchemas, m \in BOOLEAN, k \in [Callers -> KeyProperties] :
          frames = [c \in Callers |-> NewFrame(s, k[c], m, <<>>)]
    /\ nm = Idle
    /\ ty = Idle
    /\ fm = Idle

NextConc == \E c \in Callers : Call(c) \/ LoopStep(c) \/ Return(c)

SpecConc == InitConc /\ [][NextConc]_vars

SameArguments(f, g) ==
    /\ f.schema = g.schema
    /\ f.key_properties = g.key_properties
    /\ f.add_metadata = g.add_metadata
    /\ f.force_fields = g.force_fields

\* C10 as stated: two build_schema calls with the same schema,
\* key_properties, add_metadata and force_fields return structurally
\* identical field sequences, also when the steps of a call are interleaved
\* with another call that was given different key_properties.
C10_SameArgumentsSameTree ==
    \A c \in Callers, d \in Callers :
        (Returned(c) /\ Returned(d) /\ SameArguments(frames[c], frames[d]))
            => frames[c].schema_bigquery = frames[d].schema_bigquery

\* ------------------------------------------------ the type resolver alone

\* ty holds the arguments of convert_field_type and build_field and, once
\* they have run, their outcomes
JsonTypes == {"string", "number", "integer", "boolean", "object", "array"}

MaxAnyOf == 2

\* the alternatives of an anyOf: one non-null type each, the non-null type first
Alternatives == {[type |-> <<t>>] : t \in JsonTypes}
                \cup {[type |-> <<t, "null">>] : t \in {"string", "integer"}}

AnyOfNodes == {[anyOf |-> a] : a \in UNION {[1..n -> Alternatives] : n \in 1..MaxAnyOf}}

\* the steps 0.d * 10^p, p from 2 down to -MaxShift, and 1e-40
MaxShift == 12
StepDigits == {<<1>>, <<2>>, <<1, 5>>, <<1, 2, 5>>}
FarShift == 39
FloatSteps == {[kind |-> "float", digits |-> d, decpt |-> p] :
                  d \in StepDigits, p \in (-MaxShift..2) \cup {-FarShift}}
IntSteps == {[kind |-> "int", n |-> n] : n \in {0, 1, 5}}

StepNodes ==
    {[type |-> <<"number", "null">>, format |-> "number", multipleOf |-> m] :
        m \in FloatSteps \cup IntSteps}
    \cup {[type |-> <<"number", "null">>, multipleOf |-> Step_0_01],
          [type |-> <<"string", "null">>, format |-> "date-time",
           multipleOf |-> Step_0_01]}

TypeNodes == AnyOfNodes \cup StepNodes \cup LeafNodes

InitType ==
    /\ required_fields = {}
    /\ frames = IdleFrames
    /\ nm = Idle
    /\ \E p \in TypeNodes, f \in ForceFields :
          ty = [pc |-> "call", field_name |-> A, field_property |-> p,
                force_fields |-> f]
    /\ fm = Idle

ConvertFieldType ==
    /\ ty.pc = "call"
    /\ ty' = [pc |-> "converted", field_name |-> ty.field_name,
              field_property |-> ty.field_property, force_fields |-> ty.force_fields,
              field_type |-> convert_field_type(ty.field_name, ty.field_property,
                                                ty.force_fields)]
    /\ UNCHANGED <<required_fields, frames, nm, fm>>

BuildField ==
    /\ ty.pc = "converted"
    /\ ty' = [pc |-> "built", field_name |-> ty.field_name,
              field_property |-> ty.field_property, force_fields |-> ty.force_fields,
              field_type |-> ty.field_type,
              field |-> build_field(ty.field_name, ty.field_property,
                                    ty.force_fields)]
    /\ UNCHANGED <<required_fields, frames, nm, fm>>

NextType == ConvertFieldType \/ BuildField

SpecType == InitType /\ [][NextType]_vars

\* the types of the alternatives of an anyOf
AlternativeTypes(field_property) ==
    {field_property.anyOf[i].type[1] : i \in 1..Len(field_property.anyOf)}

\* C4: for every node with anyOf and no type override for its name,
\* convert_field_type returns the destination type of the alternative type of
\* lowest rank, whatever the order of the alternatives; it is STRING whenever
\* an alternative is string.
C4_AnyOfLowestRank ==
    (/\ ty.pc \in {"converted", "built"}
     /\ "anyOf" \in DOMAIN ty.field_property
     /\ ~ForceHas(ty.force_fields, ty.field_name, "type"))
    => /\ ~IsExc(ty.field_type)
       /\ \E t \in AlternativeTypes(ty.field_property) :
             /\ \A u \in AlternativeTypes(ty.field_property) :
                   prioritization_dict[t] <= prioritization_dict[u]
             /\ ty.field_type.ret = conversion_dict[t]
       /\ "string" \in AlternativeTypes(ty.field_property)
             => ty.field_type.ret = "STRING"

\* an anyOf of integer before string was resolved, to STRING
C4_Witness ==
    /\ ty.pc = "converted"
    /\ "anyOf" \in DOMAIN ty.field_property
    /\ ~ForceHas(ty.force_fields, ty.field_name, "type")
    /\ Len(ty.field_property.anyOf) = 2
    /\ ty.field_property.anyOf[1].type[1] = "integer"
    /\ ty.field_property.anyOf[2].type[1] = "string"
    /\ ty.field_type = Ret("STRING")

\* the number of digits after the decimal point of a float step
FractionalDigits(m) == IF Len(m.digits) - m.decpt > 0
                       THEN Len(m.digits) - m.decpt ELSE 0

\* C5 as stated: for every node whose multipleOf is a non-integer step, in
\* plain-decimal or in scientific notation, and whose format maps to FLOAT,
\* the resolved scale is the number of fractional digits of the step capped
\* at 38, the type is DECIMAL when scale <= 9 and BIGDECIMAL otherwise, and
\* precision is scale + 29 for DECIMAL and scale + 38 for BIGDECIMAL.
C5_ScaleFromStep ==
    (/\ ty.pc = "built"
     /\ "multipleOf" \in DOMAIN ty.field_property
     /\ ty.field_property.multipleOf.kind = "float"
     /\ FractionalDigits(ty.field_property.multipleOf) > 0
     /\ "format" \in DOMAIN ty.field_property
     /\ Convert(ty.field_property.format) = Ret("FLOAT")
     /\ ~HasKey(ty.force_fields, ty.field_name))
    => LET scale == Min(FractionalDigits(ty.field_property.multipleOf),
                        BQ_BIGDECIMAL_SCALE_MAX)
       IN  /\ ~IsExc(ty.field)
           /\ ty.field.scale = Some(scale)
           /\ ty.field.field_type =
                 IF scale <= BQ_DECIMAL_SCALE_MAX THEN "DECIMAL" ELSE "BIGDECIMAL"
           /\ ty.field.precision =
                 Some(IF scale <= BQ_DECIMAL_SCALE_MAX
                      THEN scale + BQ_DECIMAL_MAX_PRECISION_INCREMENT
                      ELSE scale + BQ_BIGDECIMAL_MAX_PRECISION_INCREMENT)

\* a step from which no scale is deduced: no integer, and its text has neither
\* a decimal point nor "1e-"
NoDeducibleScale(m) ==
    /\ m.kind = "float"
    /\ Match1(StepStr(m)) = None
    /\ Match2(StepStr(m)) = None

\* C11 as stated: for a node that has a multipleOf step from which no scale
\* can be deduced (neither an integer, nor a plain decimal, nor of the form
\* 1e-N) and whose format maps to FLOAT, convert_field_type falls through to
\* the later resolution rules (string format, array of scalars, first declared
\* type) and returns the type those rules give.
C11_NoScaleFallsThrough ==
    (/\ ty.pc \in {"converted", "built"}
     /\ "multipleOf" \in DOMAIN ty.field_property
     /\ NoDeducibleScale(ty.field_property.multipleOf)
     /\ "format" \in DOMAIN ty.field_property
     /\ Convert(ty.field_property.format) = Ret("FLOAT")
     /\ "anyOf" \notin DOMAIN ty.field_property
     /\ ~ForceHas(ty.force_fields, ty.field_name, "type"))
    => /\ ~IsExc(ty.field_type)
       /\ ty.field_type = LaterBranches(ty.field_property)

\* ------------------------------------------------ the name normalizer alone

MaxNameLen == 3

NameChars == {"a", "1", "-", "_"}

\* names of 299 to 301 characters, starting with a letter or with a digit
LongNames == {<<c>> \o Rep("-", n) : c \in {"a", "1"},
                 n \in (MaxFieldNameLen - 2)..MaxFieldNameLen}

InputNames == UNION {[1..n -> NameChars] : n \in 0..MaxNameLen} \cup LongNames

InitName ==
    /\ required_fields = {}
    /\ frames = IdleFrames
    /\ \E n \in InputNames, f \in ForceFields :
          nm = [pc |-> "call", field_name |-> n, force_fields |-> f]
    /\ ty = Idle
    /\ fm = Idle

NormalizeName ==
    /\ nm.pc = "call"
    /\ nm' = [pc |-> "done", field_name |-> nm.field_name,
              force_fields |-> nm.force_fields,
              result |-> create_valid_bigquery_field_name(nm.field_name,
                                                          nm.force_fields)]
    /\ UNCHANGED <<required_fields, frames, ty, fm>>

NextName == NormalizeName

SpecName == InitName /\ [][NextName]_vars

\* C9 as stated: create_valid_bigquery_field_name never fails; for every
\* input with no replacement name in the override table, the empty string
\* and all-symbol strings included, it returns at most 300 characters, only
\* letters, digits and underscores, not starting with a digit.
C9_NameNeverFails ==
    (/\ nm.pc = "done"
     /\ ~ForceHas(nm.force_fields, nm.field_name, "bq_field_name"))
    => /\ ~IsExc(nm.result)
       /\ Len(nm.result.ret) <= MaxFieldNameLen
       /\ \A i \in 1..Len(nm.result.ret) :
             isalnum(nm.result.ret[i]) \/ nm.result.ret[i] = "_"
       /\ Len(nm.result.ret) > 0 => ~isdigit(nm.result.ret[1])

\* ---------------------------------------------------------- record values

\* A value of a record is [kind |-> "null"], or [kind |-> k, val |-> v] with
\*   k = "bool":  v a BOOLEAN            k = "int":   v an integer
\*   k = "float": v the integer n of n.0 k = "str":   v a sequence of characters
\*   k = "list":  v a sequence of values
\*   k = "bytes": v a sequence of integers (only ever the result of a cast)
\*   k = "dict":  v a sequence of <<key, value>> pairs, key a sequence of
\*                characters (the keys of a JSON object are strings).
\* The texts of the model are written over digits, "x", "[" and "]".
VNull == [kind |-> "null"]
VBool(b) == [kind |-> "bool", val |-> b]
VInt(n) == [kind |-> "int", val |-> n]
VFloat(n) == [kind |-> "float", val |-> n]
VStr(s) == [kind |-> "str", val |-> s]
VList(l) == [kind |-> "list", val |-> l]
VDict(d) == [kind |-> "dict", val |-> d]
VBytes(b) == [kind |-> "bytes", val |-> b]

\* the concatenation of a sequence of texts, sep between them
RECURSIVE Join(_, _)
Join(texts, sep) ==
    IF Len(texts) = 0 THEN <<>>
    ELSE IF Len(texts) = 1 THEN texts[1]
    ELSE texts[1] \o sep \o Join(Tail(texts), sep)

SignedStr(n) == IF n < 0 THEN <<"-">> \o IntStr(-n) ELSE IntStr(n)

\* repr(v)
RECURSIVE Repr(_)
Repr(v) ==
    CASE v.kind = "null" -> <<"N", "o", "n", "e">>
      [] v.kind = "bool" -> IF v.val THEN <<"T", "r", "u", "e">>
                                     ELSE <<"F", "a", "l", "s", "e">>
      [] v.kind = "int" -> SignedStr(v.val)
      [] v.kind = "float" -> SignedStr(v.val) \o <<".", "0">>
      [] v.kind = "str" -> <<"'">> \o v.val \o <<"'">>
      [] v.kind = "list" ->
            <<"[">> \o Join([i \in 1..Len(v.val) |-> Repr(v.val[i])], <<",", " ">>)
                    \o <<"]">>
      [] v.kind = "dict" ->
            <<"{">> \o Join([i \in 1..Len(v.val) |->
                               <<"'">> \o v.val[i][1] \o <<"'", ":", " ">>
                                       \o Repr(v.val[i][2])], <<",", " ">>)
                    \o <<"}">>

\* isinstance(v, str), isinstance(v, bool), isinstance(v, list), isinstance(v, dict)
IsStr(v) == v.kind = "str"
IsBool(v) == v.kind = "bool"
IsList(v) == v.kind = "list"
IsDict(v) == v.kind = "dict"

\* str(v)
PyStr(v) == Ret(VStr(IF IsStr(v) THEN v.val ELSE Repr(v)))

\* bool(v)
Truthy(v) ==
    CASE v.kind = "null" -> FALSE
      [] v.kind = "bool" -> v.val
      [] v.kind \in {"int", "float"} -> v.val # 0
      [] OTHER -> Len(v.val) > 0

PyBool(v) == Ret(VBool(Truthy(v)))

\* int(v)
PyInt(v) ==
    CASE v.kind = "bool" -> Ret(VInt(IF v.val THEN 1 ELSE 0))
      [] v.kind \in {"int", "float"} -> Ret(VInt(v.val))
      [] v.kind = "str" ->
            IF ~IsExc(IntOfText(v.val)) THEN Ret(VInt(IntOfText(v.val).ret))
            ELSE Raise("ValueError")
      [] OTHER -> Raise("TypeError")

\* float(v)
PyFloat(v) ==
    CASE v.kind = "bool" -> Ret(VFloat(IF v.val THEN 1 ELSE 0))
      [] v.kind \in {"int", "float"} -> Ret(VFloat(v.val))
      [] v.kind = "str" ->
            IF ~IsExc(IntOfText(v.val)) THEN Ret(VFloat(IntOfText(v.val).ret))
            ELSE Raise("ValueError")
      [] OTHER -> Raise("TypeError")

\* iter(v): the items a for loop sees, or TypeError
Items(v) ==
    CASE v.kind = "list" -> Ret(v.val)
      [] v.kind = "str" -> Ret([i \in 1..Len(v.val) |-> VStr(<<v.val[i]>>)])
      [] v.kind = "dict" -> Ret([i \in 1..Len(v.val) |-> VStr(v.val[i][1])])
      [] v.kind = "bytes" -> Ret([i \in 1..Len(v.val) |-> VInt(v.val[i])])
      [] OTHER -> Raise("TypeError")

\* d[k] = v on a dict: a key that is there keeps its place
DictSet(d, k, v) ==
    IF HasKey(d, k)
    THEN [i \in 1..Len(d) |-> IF d[i][1] = k THEN <<k, v>> ELSE d[i]]
    ELSE Append(d, <<k, v>>)

\* a pop that removes nothing
DictKeep(d, k) == d

\* d.pop(k)
DictPop(d, k) ==
    LET keep == {i \in 1..Len(d) : d[i][1] # k}
        RECURSIVE Pick(_)
        Pick(i) == IF i > Len(d) THEN <<>>
                   ELSE IF i \in keep THEN <<d[i]>> \o Pick(i + 1) ELSE Pick(i + 1)
    IN  Pick(1)

\* the key of a pair given to dict(): a str keeps its text; the record model
\* has str keys only, so another hashable key is kept by its repr
KeyText(v) == IF IsStr(v) THEN v.val ELSE Repr(v)

RECURSIVE DictFromPairs(_, _, _)
DictFromPairs(pairs, i, acc) ==
    IF i > Len(pairs) THEN Ret(VDict(acc))
    ELSE LET it == Items(pairs[i])
         IN  IF IsExc(it) THEN Raise("TypeError")
             ELSE IF Len(it.ret) # 2 THEN Raise("ValueError")
             ELSE IF it.ret[1].kind \in {"list", "dict"} THEN Raise("TypeError")
             ELSE DictFromPairs(pairs, i + 1,
                                DictSet(acc, KeyText(it.ret[1]), it.ret[2]))

\* dict(v)
PyDict(v) ==
    IF IsDict(v) THEN Ret(v)
    ELSE LET it == Items(v)
         IN  IF IsExc(it) THEN it ELSE DictFromPairs(it.ret, 1, <<>>)

ByteMax == 255

\* bytes(v)
PyBytes(v) ==
    CASE v.kind = "bool" -> Ret(VBytes(Rep(0, IF v.val THEN 1 ELSE 0)))
      [] v.kind = "int" -> IF v.val >= 0 THEN Ret(VBytes(Rep(0, v.val)))
                           ELSE Raise("ValueError")
      [] v.kind = "bytes" -> Ret(v)
      [] v.kind \in {"list", "dict"} ->
            LET it == Items(v).ret
            IN  IF \E i \in 1..Len(it) : it[i].kind \notin {"int", "bool"}
                THEN Raise("TypeError")
                ELSE IF \E i \in 1..Len(it) :
                           it[i].kind = "int" /\ it[i].val \notin 0..ByteMax
                THEN Raise("ValueError")
                ELSE Ret(VBytes([i \in 1..Len(it) |->
                                   IF it[i].kind = "int" THEN it[i].val
                                   ELSE IF it[i].val THEN 1 ELSE 0]))
      [] OTHER -> Raise("TypeError")

\* json.loads(s) for a text over digits 1-9, "x", "[" and "]": a number, or
\* an array of at most one value (the texts hold no comma, blank or quote)
RECURSIVE JsonLoads(_)
JsonLoads(s) ==
    IF ~IsExc(IntOfText(s)) /\ (Len(s) = 1 \/ s[1] # "0")
    THEN Ret(VInt(IntOfText(s).ret))
    ELSE IF Len(s) >= 2 /\ s[1] = "[" /\ s[Len(s)] = "]"
    THEN IF Len(s) = 2 THEN Ret(VList(<<>>))
         ELSE LET inner == JsonLoads(SubSeq(s, 2, Len(s) - 1))
              IN  IF IsExc(inner) THEN inner ELSE Ret(VList(<<inner.ret>>))
    ELSE Raise("JSONDecodeError")

\* -------------------------------------------------- format_record_to_schema

\* conversion_dict of format_record_to_schema: the cast of each column type
record_conversion_dict ==
    ("BYTES" :> "bytes") @@ ("STRING" :> "str") @@ ("TIME" :> "str") @@
    ("TIMESTAMP" :> "str") @@ ("DATE" :> "str") @@ ("DATETIME" :> "str") @@
    ("FLOAT" :> "float") @@ ("NUMERIC" :> "float") @@ ("BIGNUMERIC" :> "float") @@
    ("INTEGER" :> "int") @@ ("BOOLEAN" :> "bool") @@ ("GEOGRAPHY" :> "str") @@
    ("DECIMAL" :> "str") @@ ("BIGDECIMAL" :> "str") @@ ("JSON" :> "dict")

\* conversion_dict[col_type](v)
Cast(col_type, v) ==
    IF col_type \notin DOMAIN record_conversion_dict THEN Raise("KeyError")
    ELSE CASE record_conversion_dict[col_type] = "bytes" -> PyBytes(v)
           [] record_conversion_dict[col_type] = "str" -> PyStr(v)
           [] record_conversion_dict[col_type] = "float" -> PyFloat(v)
           [] record_conversion_dict[col_type] = "int" -> PyInt(v)
           [] record_conversion_dict[col_type] = "bool" -> PyBool(v)
           [] record_conversion_dict[col_type] = "dict" -> PyDict(v)

\* the exceptions of lines 459, 479 and 490
ListObjectError(r) ==
    [exc |-> "Exception", msg |-> "unhandled instance of list object in record",
     value |-> r]
ConvError(msg, k, col_type, v) ==
    [exc |-> "Exception", msg |-> msg, column |-> k, column_type |-> col_type,
     value |-> v, value_type |-> v.kind]

\* a comprehension that gives up the failing items and keeps the rest
CastWhatCasts(col_type, items) ==
    LET RECURSIVE Kept(_)
        Kept(i) == IF i > Len(items) THEN <<>>
                   ELSE IF IsExc(Cast(col_type, items[i])) THEN Kept(i + 1)
                   ELSE <<Cast(col_type, items[i]).ret>> \o Kept(i + 1)
    IN  Ret(Kept(1))

\* [conversion_dict[col_type](vi) for vi in v] over the items of v
CastEach(col_type, items) ==
    LET casts == FirstExc([i \in 1..Len(items) |-> Cast(col_type, items[i])])
    IN  IF IsExc(casts) THEN casts
        ELSE Ret([i \in 1..Len(items) |-> casts.ret[i].ret])

\* lines 473-479: the new value of a REPEATED column without children
RepeatedValue(k, col_type, value) ==
    LET loaded == IF col_type = "JSON" /\ IsStr(value) THEN JsonLoads(value.val)
                  ELSE Ret(value)
    IN  IF IsExc(loaded)
        THEN ConvError("repeated data conv error", k, col_type, value)
        ELSE LET v == loaded.ret
                 it == Items(v)
                 cast == IF IsExc(it) THEN it ELSE CastEach(col_type, it.ret)
             IN  IF IsExc(cast)
                 THEN ConvError("repeated data conv error", k, col_type, v)
                 ELSE Ret(VList(cast.ret))

\* lines 481-490: the new value of a column that is neither nested nor REPEATED
ScalarValue(k, col_type, v) ==
    LET cast == IF col_type = "JSON" /\ IsStr(v) THEN JsonLoads(v.val)
                ELSE IF col_type = "JSON" /\ IsBool(v) THEN Ret(v)
                ELSE Cast(col_type, v)
    IN  IF IsExc(cast) THEN ConvError("data conv error", k, col_type, v)
        ELSE cast

\* bq_schema[k].get("fields"), truthy
HasFields(field) == "fields" \in DOMAIN field /\ Len(field.fields) > 0

\* format_record_to_schema(record, bq_schema): val is the record object as the
\* call leaves it (it is changed in place, also when the call raises), out is
\* Ret(the returned value) or the exception
RECURSIVE format_record_to_schema(_, _)
RECURSIVE FormatList(_, _, _, _)
RECURSIVE FormatDict(_, _, _, _)

\* lines 452-460: elems are the objects of the list, i the next one
FormatList(elems, i, new_record, bq_schema) ==
    IF i > Len(elems)
    THEN [val |-> VList(elems), out |-> Ret(VList(new_record))]
    ELSE IF IsDict(elems[i])
    THEN LET r == format_record_to_schema(elems[i], bq_schema)
             after == [elems EXCEPT ![i] = r.val]
         IN  IF IsExc(r.out) THEN [val |-> VList(after), out |-> r.out]
             ELSE FormatList(after, i + 1, Append(new_record, r.out.ret), bq_schema)
    ELSE [val |-> VList(elems), out |-> ListObjectError(elems[i])]

\* lines 461-491: rc is the copy iterated, i its next item, record the dict
FormatDict(record, rc, i, bq_schema) ==
    IF i > Len(rc)
    THEN [val |-> VDict(record), out |-> Ret(VDict(record))]
    ELSE
    LET k == rc[i][1]
        v == rc[i][2]
    IN  IF ~HasKey(bq_schema, k)
        THEN FormatDict(DictPop(record, k), rc, i + 1, bq_schema)
        ELSE IF v = VNull
        THEN FormatDict(record, rc, i + 1, bq_schema)
        ELSE IF HasFields(Get(bq_schema, k))
        THEN LET r == format_record_to_schema(Get(record, k),
                                              Get(bq_schema, k).fields)
             IN  IF IsExc(r.out)
                 THEN [val |-> VDict(DictSet(record, k, r.val)), out |-> r.out]
                 ELSE FormatDict(DictSet(record, k, r.out.ret), rc, i + 1, bq_schema)
        ELSE
        LET new == IF Get(bq_schema, k).mode = "REPEATED"
                   THEN RepeatedValue(k, Get(bq_schema, k).type, v)
                   ELSE ScalarValue(k, Get(bq_schema, k).type, v)
        IN  IF IsExc(new) THEN [val |-> VDict(record), out |-> new]
            ELSE FormatDict(DictSet(record, k, new.ret), rc, i + 1, bq_schema)

format_record_to_schema(record, bq_schema) ==
    IF IsList(record) THEN FormatList(record.val, 1, <<>>, bq_schema)
    ELSE IF IsDict(record) THEN FormatDict(record.val, record.val, 1, bq_schema)
    ELSE [val |-> record, out |-> Ret(record)]

\* ---------------------------------------------- the coercion engine alone

U == <<"u">>

\* one level of the destination field mapping: name -> field
IntegerField == [type |-> "INTEGER", mode |-> "NULLABLE", fields |-> <<>>]
StringField == [type |-> "STRING", mode |-> "NULLABLE", fields |-> <<>>]
JsonField == [type |-> "JSON", mode |-> "NULLABLE", fields |-> <<>>]
RepeatedIntegerField == [type |-> "INTEGER", mode |-> "REPEATED", fields |-> <<>>]
RepeatedStringField == [type |-> "STRING", mode |-> "REPEATED", fields |-> <<>>]
RepeatedJsonField == [type |-> "JSON", mode |-> "REPEATED", fields |-> <<>>]
ChildFields == << <<A, IntegerField>>, <<B, StringField>> >>
RecordField == [type |-> "RECORD", mode |-> "NULLABLE", fields |-> ChildFields]
RepeatedRecordField == [type |-> "RECORD", mode |-> "REPEATED", fields |-> ChildFields]

FieldsOfA == {IntegerField, StringField, JsonField, RepeatedIntegerField,
              RepeatedStringField, RepeatedJsonField, RecordField,
              RepeatedRecordField}

BqSchemas == {<< <<A, f>> >> : f \in FieldsOfA}
             \cup {<< <<B, IntegerField>>, <<A, f>> >> : f \in FieldsOfA}

MaxLen == 2

ScalarValues == {VNull, VBool(TRUE), VInt(5), VStr(<<"5">>), VStr(<<"x">>),
                 VStr(<<"[", "5", "]">>)}
DictValues == {VDict(<< <<A, VStr(<<"5">>)>> >>),
               VDict(<< <<U, VInt(1)>>, <<A, VStr(<<"x">>)>> >>),
               VDict(<< <<B, VNull>>, <<U, VInt(1)>>, <<A, VInt(5)>> >>)}
Elements == {VNull, VInt(5), VStr(<<"1">>), VStr(<<"x">>)} \cup DictValues
ListValues == {VList(l) : l \in UNION {[1..n -> Elements] : n \in 0..MaxLen}}

ValuesOfA == ScalarValues \cup DictValues \cup ListValues

\* the records: a alone, or with an unknown key u or with b, in either order
Records ==
    {VDict(<<>>)}
    \cup {VDict(<< <<A, v>> >>) : v \in ValuesOfA}
    \cup {VDict(<< <<U, VInt(1)>>, <<A, v>> >>) : v \in ValuesOfA}
    \cup {VDict(<< <<A, v>>, <<U, VNull>> >>) : v \in ValuesOfA}
    \cup {VDict(<< <<A, v>>, <<B, w>> >>) :
             v \in ValuesOfA, w \in {VNull, VStr(<<"5">>), VStr(<<"x">>)}}
    \cup {VDict(<< <<B, VStr(<<"5">>)>>, <<A, v>> >>) : v \in ValuesOfA}

InitRecord ==
    /\ required_fields = {}
    /\ frames = IdleFrames
    /\ nm = Idle
    /\ ty = Idle
    /\ \E r \in Records, b \in BqSchemas :
          fm = [pc |-> "call", record |-> r, bq_schema |-> b]

\* the call: input is the record as it was given, record the same object after
FormatRecord ==
    /\ fm.pc = "call"
    /\ LET r == format_record_to_schema(fm.record, fm.bq_schema)
       IN  fm' = [pc |-> "done", input |-> fm.record, bq_schema |-> fm.bq_schema,
                  record |-> r.val, out |-> r.out]
    /\ UNCHANGED <<required_fields, frames, nm, ty>>

NextRecord == FormatRecord

SpecRecord == InitRecord /\ [][NextRecord]_vars

\* ------------------------------------------- claims: format_record_to_schema

Done == fm.pc = "done"

\* the keys of a mapping that the field mapping knows, in the mapping's order
KnownKeys(d, bq_schema) == SelectSeq(Keys(d), LAMBDA k : HasKey(bq_schema, k))

\* output is input without its unknown keys, at this level and below; a null
\* stays a null
RECURSIVE KeysKept(_, _, _)
KeysKept(input, output, bq_schema) ==
    /\ IsDict(output)
    /\ Keys(output.val) = KnownKeys(input.val, bq_schema)
    /\ \A i \in 1..Len(input.val) :
          LET k == input.val[i][1]
              v == input.val[i][2]
          IN  HasKey(bq_schema, k) =>
                LET w == Get(output.val, k)
                    fields == Get(bq_schema, k).fields
                IN  /\ v = VNull => w = VNull
                    /\ (HasFields(Get(bq_schema, k)) /\ IsDict(v))
                          => KeysKept(v, w, fields)
                    /\ (HasFields(Get(bq_schema, k)) /\ IsList(v))
                          => /\ IsList(w)
                             /\ Len(w.val) = Len(v.val)
                             /\ \A j \in 1..Len(v.val) :
                                   KeysKept(v.val[j], w.val[j], fields)

\* C6: when format_record_to_schema succeeds on a mapping record, at every
\* recursion level the keys of the returned mapping are exactly the input
\* keys that the field mapping holds, in the input's order: unknown keys are
\* dropped, no key is added, and a value that was null stays null.
C6_KeysKept ==
    (Done /\ IsDict(fm.input) /\ ~IsExc(fm.out))
        => KeysKept(fm.input, fm.out.ret, fm.bq_schema)

\* a call that succeeded and dropped an unknown key at the top and another
\* inside a nested record whose null was kept
C6_Witness ==
    /\ Done
    /\ ~IsExc(fm.out)
    /\ IsDict(fm.input)
    /\ HasKey(fm.input.val, U)
    /\ HasKey(fm.input.val, A)
    /\ HasKey(fm.bq_schema, A)
    /\ HasFields(Get(fm.bq_schema, A))
    /\ IsDict(Get(fm.input.val, A))
    /\ Keys(Get(fm.input.val, A).val) = <<B, U, A>>
    /\ Keys(fm.out.ret.val) = <<A>>
    /\ Keys(Get(fm.out.ret.val, A).val) = <<B, A>>
    /\ Get(Get(fm.out.ret.val, A).val, B) = VNull

\* a non-null value of the wrong shape for its field
WrongShape(field, v) ==
    /\ v # VNull
    /\ \/ HasFields(field) /\ v.kind \in {"str", "int", "float", "bool"}
       \/ HasFields(field) /\ IsList(v) /\ \E j \in 1..Len(v.val) : ~IsDict(v.val[j])
       \/ ~HasFields(field) /\ field.mode = "REPEATED" /\ ~IsList(v)

\* C7 as stated: whenever a non-null value has the wrong shape for its field
\* (a scalar for a field with children, a sequence with a non-mapping element
\* for a field with children, a non-sequence for a REPEATED field without
\* children), format_record_to_schema raises a coercion error and returns no
\* record that still holds the value.
C7_WrongShapeRaises ==
    (/\ Done
     /\ IsDict(fm.input)
     /\ \E i \in 1..Len(fm.input.val) :
           /\ HasKey(fm.bq_schema, fm.input.val[i][1])
           /\ WrongShape(Get(fm.bq_schema, fm.input.val[i][1]), fm.input.val[i][2]))
    => IsExc(fm.out)

\* the call raised on one of the first n keys of the input
RaisedOnEarlierKey(n) ==
    /\ IsExc(fm.out)
    /\ "column" \in DOMAIN fm.out
    /\ \E j \in 1..n : fm.out.column = fm.input.val[j][1]

\* C8: for a REPEATED field without children and a sequence value (in a call
\* that gets as far as the field): if every element casts to the declared
\* type, the field becomes the element-wise cast list, same length and order;
\* if an element fails to cast, the call raises a coercion error naming the
\* field, the declared type and the value, and the field's value in the
\* record is not replaced by a partial list.
C8_RepeatedAllOrNothing ==
    (Done /\ IsDict(fm.input)) =>
        \A i \in 1..Len(fm.input.val) :
            LET k == fm.input.val[i][1]
                v == fm.input.val[i][2]
            IN  (/\ HasKey(fm.bq_schema, k)
                 /\ ~HasFields(Get(fm.bq_schema, k))
                 /\ Get(fm.bq_schema, k).mode = "REPEATED"
                 /\ IsList(v)
                 /\ ~RaisedOnEarlierKey(i - 1))
                => LET col_type == Get(fm.bq_schema, k).type
                       casts == [j \in 1..Len(v.val) |-> Cast(col_type, v.val[j])]
                   IN  IF \A j \in 1..Len(v.val) : ~IsExc(casts[j])
                       THEN /\ Get(fm.record.val, k) =
                                  VList([j \in 1..Len(v.val) |-> casts[j].ret])
                            /\ IsExc(fm.out) => fm.out.column # k
                       ELSE /\ IsExc(fm.out)
                            /\ fm.out.column = k
                            /\ fm.out.column_type = col_type
                            /\ fm.out.value = v
                            /\ Get(fm.record.val, k) = v

\* a REPEATED INTEGER column given a list whose first element casts and whose
\* second does not: the call raised and the record holds the list as given
C8_Witness ==
    /\ Done
    /\ IsDict(fm.input)
    /\ HasKey(fm.input.val, A)
    /\ HasKey(fm.bq_schema, A)
    /\ Get(fm.bq_schema, A) = RepeatedIntegerField
    /\ Get(fm.input.val, A) = VList(<<VStr(<<"1">>), VStr(<<"x">>)>>)
    /\ IsExc(fm.out)
    /\ fm.out.column = A
    /\ Get(fm.record.val, A) = Get(fm.input.val, A)

====
